---- MODULE Spec2Model ----
(***************************************************************************)
(* Two operational scripts of the repository:                              *)
(*   tools/ssl-cert-monitor.py  - certificate check, threshold evaluation, *)
(*                                notification, renewal, logging, exit     *)
(*   tools/system-monitor.py    - metrics snapshot, warnings, logging,     *)
(*                                single run or daemon loop                *)
(* Spec is one run of the certificate tool, SpecMon one run (or the daemon *)
(* loop) of the metrics agent.  Everything the scripts obtain from the     *)
(* outside (handshakes, subprocess results, file appends, the webhook) is  *)
(* a nondeterministic choice over the outcomes the call can have.          *)
(***************************************************************************)
EXTENDS Integers, Sequences, FiniteSets, TLC

\* ------------------------------------------------------------- bounds
\* Largest value a configured threshold (critical_days, warning_days) takes.
MaxThreshold == 1
\* Largest number of entries of config['domains'].
MaxDomains == 2

Thresholds == 0..MaxThreshold
\* days_until_expiry of a certificate that was read: from 0 (a certificate that
\* is past its notAfter fails the verified handshake and gives the error
\* record) up to one day beyond the largest threshold.
DaysValues == 0..(MaxThreshold + 1)
DomainName(k) == "domain" \o ToString(k) \o ".example"
Domains == {DomainName(k) : k \in 1..MaxDomains}
\* args.check_domain when --check-domain was not given (None, falsy).
NoDomain == ""

\* What a subprocess.run call can do: exit 0, exit non-zero, exceed its
\* timeout, or raise (binary missing, OSError).
RunOutcomes == {"rc0", "rc1", "timeout", "raise"}
TestOutcomes == {"rc0", "rc1", "raise"}
NotRun == "notrun"

VARIABLES
    \* ---- certificate tool
    config,            \* SSLCertMonitor.config (the keys the run reads)
    args,              \* parsed command line
    pc,                \* position of main()
    results,           \* list of certificate records
    alerts,            \* list of alerts built by analyze_results
    renewals_needed,   \* list of domains built by analyze_results
    i,                 \* index of the running for-loop (1-based)
    calls,             \* every subprocess the run has invoked, in order
    host,              \* what the commands of the last renewal did / would do
    slack,             \* what send_slack_alert did
    logged,            \* what log_results did
    exit_code,         \* process exit status
    \* ---- metrics agent
    margs,             \* parsed command line
    mpc,               \* position of main() / run_monitoring()
    env,               \* what the probes of the running snapshot met
    metrics,           \* the snapshot of the running iteration
    warnings,          \* check_thresholds' list
    mlog,              \* what the log-file append did
    mexit              \* process exit status

certVars == <<config, args, pc, results, alerts, renewals_needed, i, calls,
              host, slack, logged, exit_code>>
monVars == <<margs, mpc, env, metrics, warnings, mlog, mexit>>
vars == <<config, args, pc, results, alerts, renewals_needed, i, calls,
          host, slack, logged, exit_code,
          margs, mpc, env, metrics, warnings, mlog, mexit>>

\* The process exit status: still running, sys.exit(code), or an exception that
\* left main (the interpreter prints the traceback and exits non-zero).
NoExit == [cause |-> "running", code |-> 0]
Exited(code) == [cause |-> "return", code |-> code]
Traceback == [cause |-> "exception", code |-> 1]
NoHost == [certbot |-> NotRun, nginx |-> NotRun, apache |-> NotRun, reload |-> NotRun]

\* ===================================================== certificate tool

\* get_cert_info: a record read from a handshake that succeeded.
ValidRecord(domain, days) ==
    [domain |-> domain, status |-> "valid", days_until_expiry |-> days]

\* get_cert_info: the record of the except branch.
ErrorRecord(domain) ==
    [domain |-> domain, error |-> "exception", status |-> "error",
     days_until_expiry |-> -1]

\* The records get_cert_info can return for a domain.
get_cert_info(domain) ==
    {ErrorRecord(domain)} \cup {ValidRecord(domain, d) : d \in DaysValues}

\* cert_alerts with the critical comparison strict (days < critical_days).
cert_alerts_strict(cert) ==
    IF cert.status = "error"
    THEN << [level |-> "critical", domain |-> cert.domain,
             message |-> "Certificate check failed: " \o cert.error] >>
    ELSE IF cert.days_until_expiry < config.critical_days
    THEN << [level |-> "critical", domain |-> cert.domain,
             message |-> "Certificate expires in "
                         \o ToString(cert.days_until_expiry) \o " days!"] >>
    ELSE IF cert.days_until_expiry <= config.warning_days
    THEN << [level |-> "warning", domain |-> cert.domain,
             message |-> "Certificate expires in "
                         \o ToString(cert.days_until_expiry) \o " days"] >>
    ELSE << >>

\* cert_alerts with the error branch skipping the record without an alert.
cert_alerts_skip_error(cert) ==
    IF cert.status = "error" THEN << >>
    ELSE IF cert.days_until_expiry <= config.critical_days
    THEN << [level |-> "critical", domain |-> cert.domain,
             message |-> "Certificate expires in "
                         \o ToString(cert.days_until_expiry) \o " days!"] >>
    ELSE IF cert.days_until_expiry <= config.warning_days
    THEN << [level |-> "warning", domain |-> cert.domain,
             message |-> "Certificate expires in "
                         \o ToString(cert.days_until_expiry) \o " days"] >>
    ELSE << >>

\* The alerts one iteration of analyze_results' loop appends for cert.
cert_alerts(cert) ==
    IF cert.status = "error"
    THEN << [level |-> "critical", domain |-> cert.domain,
             message |-> "Certificate check failed: " \o cert.error] >>
    ELSE IF cert.days_until_expiry <= config.critical_days
    THEN << [level |-> "critical", domain |-> cert.domain,
             message |-> "Certificate expires in "
                         \o ToString(cert.days_until_expiry) \o " days!"] >>
    ELSE IF cert.days_until_expiry <= config.warning_days
    THEN << [level |-> "warning", domain |-> cert.domain,
             message |-> "Certificate expires in "
                         \o ToString(cert.days_until_expiry) \o " days"] >>
    ELSE << >>

\* cert_renewals with the warning branch marking the domain for renewal too.
cert_renewals_on_warning(cert) ==
    IF cert.status = "error" THEN << >>
    ELSE IF cert.days_until_expiry <= config.critical_days
    THEN << cert.domain >>
    ELSE IF cert.days_until_expiry <= config.warning_days
    THEN << cert.domain >>
    ELSE << >>

\* The renewals one iteration of analyze_results' loop appends for cert.
cert_renewals(cert) ==
    IF cert.status = "error" THEN << >>
    ELSE IF cert.days_until_expiry <= config.critical_days
    THEN << cert.domain >>
    ELSE << >>

CertInit ==
    /\ config \in [domains : {[k \in 1..n |-> DomainName(k)] : n \in 0..MaxDomains},
                   warning_days : Thresholds,
                   critical_days : Thresholds,
                   slack_webhook : BOOLEAN,
                   auto_renew : BOOLEAN]
    /\ args \in [check_domain : {NoDomain} \cup Domains,
                 renew : BOOLEAN,
                 output : {"json", "human"}]
    /\ pc = "check"
    /\ results = << >>
    /\ alerts = << >>
    /\ renewals_needed = << >>
    /\ i = 1
    /\ calls = << >>
    /\ host = NoHost
    /\ slack = "none"
    /\ logged = "none"
    /\ exit_code = NoExit

\* The certificate tool is not the program being run (SpecMon).
CertIdle ==
    /\ config = [domains |-> << >>, warning_days |-> 0, critical_days |-> 0,
                 slack_webhook |-> FALSE, auto_renew |-> FALSE]
    /\ args = [check_domain |-> NoDomain, renew |-> FALSE, output |-> "human"]
    /\ pc = "idle"
    /\ results = << >>
    /\ alerts = << >>
    /\ renewals_needed = << >>
    /\ i = 1
    /\ calls = << >>
    /\ host = NoHost
    /\ slack = "none"
    /\ logged = "none"
    /\ exit_code = NoExit

\* main: results = [monitor.get_cert_info(args.check_domain)]
check_domain ==
    /\ pc = "check"
    /\ args.check_domain # NoDomain
    /\ \E cert \in get_cert_info(args.check_domain) : results' = << cert >>
    /\ i' = 1
    /\ pc' = "analyze"
    /\ UNCHANGED <<config, args, alerts, renewals_needed, calls, host, slack,
                   logged, exit_code>>
    /\ UNCHANGED monVars

\* check_all_certificates: one get_cert_info per configured domain, in order.
check_all_certificates ==
    /\ pc = "check"
    /\ args.check_domain = NoDomain
    /\ \E rs \in [1..Len(config.domains) -> UNION {get_cert_info(d) : d \in Domains}] :
          /\ \A k \in 1..Len(config.domains) : rs[k] \in get_cert_info(config.domains[k])
          /\ results' = rs
    /\ i' = 1
    /\ pc' = "analyze"
    /\ UNCHANGED <<config, args, alerts, renewals_needed, calls, host, slack,
                   logged, exit_code>>
    /\ UNCHANGED monVars

\* analyze_results: one iteration of "for cert in results".
analyze_results ==
    /\ pc = "analyze"
    /\ i <= Len(results)
    /\ alerts' = alerts \o cert_alerts(results[i])
    /\ renewals_needed' = renewals_needed \o cert_renewals(results[i])
    /\ i' = i + 1
    /\ UNCHANGED <<config, args, pc, results, calls, host, slack, logged, exit_code>>
    /\ UNCHANGED monVars

\* analyze_results: return alerts, renewals_needed.
analyze_return ==
    /\ pc = "analyze"
    /\ i > Len(results)
    /\ pc' = "output"
    /\ UNCHANGED <<config, args, results, alerts, renewals_needed, i, calls,
                   host, slack, logged, exit_code>>
    /\ UNCHANGED monVars

\* main: the json / human report; it prints and changes nothing.
output_results ==
    /\ pc = "output"
    /\ args.output \in {"json", "human"}
    /\ pc' = "notify"
    /\ UNCHANGED <<config, args, results, alerts, renewals_needed, i, calls,
                   host, slack, logged, exit_code>>
    /\ UNCHANGED monVars

\* send_slack_alert's effect: nothing without a webhook; otherwise the post
\* is answered 200, answered otherwise, or raises (also: requests missing).
send_slack_alert(post) ==
    IF ~config.slack_webhook THEN "no webhook"
    ELSE IF post = "200" THEN "sent"
    ELSE IF post = "other" THEN "rejected"
    ELSE "error"

\* main: if alerts: monitor.send_slack_alert(alerts)
notify ==
    /\ pc = "notify"
    /\ IF alerts # << >>
       THEN \E post \in {"200", "other", "raise"} : slack' = send_slack_alert(post)
       ELSE slack' = "no alerts"
    /\ i' = 1
    /\ pc' = "renew"
    /\ UNCHANGED <<config, args, results, alerts, renewals_needed, calls, host,
                   logged, exit_code>>
    /\ UNCHANGED monVars

\* reload_web_server: the subprocesses it invokes on a host whose nginx and
\* apache config tests do h.nginx and h.apache.  An exception of any call
\* leaves through the single except around the whole body.
reload_web_server(h) ==
    << <<"nginx", "-t">> >> \o
    (IF h.nginx = "rc0" THEN << <<"systemctl", "reload", "nginx">> >>
     ELSE IF h.nginx = "raise" THEN << >>
     ELSE << <<"apache2ctl", "configtest">> >> \o
          (IF h.apache = "rc0" THEN << <<"systemctl", "reload", "apache2">> >>
           ELSE << >>))

\* renew_certificate without the auto_renew guard.
renew_certificate_unguarded(domain, h) ==
    << <<"certbot", "renew", domain>> >> \o
    (IF h.certbot = "rc0" THEN reload_web_server(h) ELSE << >>)

\* renew_certificate: the subprocesses it invokes for domain on host h.
renew_certificate(domain, h) ==
    IF ~config.auto_renew THEN << >>
    ELSE << <<"certbot", "renew", domain>> >> \o
         (IF h.certbot = "rc0" THEN reload_web_server(h) ELSE << >>)

\* What the commands of one renewal can do.  The config tests are facts of
\* the host: apache's is one whenever nginx's does not pass, whether or not the
\* code gets to run it.  When certbot is not run, or does not exit 0, nothing
\* else is asked of the host; reload is the outcome of a systemctl reload.
HostOutcomes ==
    IF ~config.auto_renew THEN {NoHost}
    ELSE {[certbot |-> c, nginx |-> NotRun, apache |-> NotRun, reload |-> NotRun] :
             c \in RunOutcomes \ {"rc0"}}
         \cup {h \in [certbot : {"rc0"}, nginx : TestOutcomes,
                      apache : TestOutcomes \cup {NotRun},
                      reload : {"rc0", "raise", NotRun}] :
                 /\ (h.apache = NotRun) = (h.nginx = "rc0")
                 /\ (h.reload = NotRun) =
                       ~(h.nginx = "rc0" \/ (h.nginx = "rc1" /\ h.apache = "rc0"))}

\* renew_loop with a renewal that did not succeed ending the loop, as an
\* exception leaving renew_certificate would.
renew_loop_abort ==
    /\ pc = "renew"
    /\ args.renew
    /\ i <= Len(renewals_needed)
    /\ \E h \in HostOutcomes :
          /\ host' = h
          /\ calls' = calls \o renew_certificate(renewals_needed[i], h)
          /\ i' = IF h.certbot = "rc0" THEN i + 1 ELSE Len(renewals_needed) + 1
    /\ UNCHANGED <<config, args, pc, results, alerts, renewals_needed, slack,
                   logged, exit_code>>
    /\ UNCHANGED monVars

\* main: one iteration of "for domain in renewals_needed" (under
\* "if args.renew and renewals_needed").
renew_loop ==
    /\ pc = "renew"
    /\ args.renew
    /\ i <= Len(renewals_needed)
    /\ \E h \in HostOutcomes :
          /\ host' = h
          /\ calls' = calls \o renew_certificate(renewals_needed[i], h)
    /\ i' = i + 1
    /\ UNCHANGED <<config, args, pc, results, alerts, renewals_needed, slack,
                   logged, exit_code>>
    /\ UNCHANGED monVars

\* main: the renewal block is over, or is skipped.
renew_done ==
    /\ pc = "renew"
    /\ ~args.renew \/ i > Len(renewals_needed)
    /\ pc' = "log"
    /\ UNCHANGED <<config, args, results, alerts, renewals_needed, i, calls,
                   host, slack, logged, exit_code>>
    /\ UNCHANGED monVars

\* log_results: makedirs + append, inside try/except Exception.
log_results ==
    /\ pc = "log"
    /\ \E append \in {"ok", "raise"} :
          logged' = IF append = "ok" THEN "written" ELSE "warning printed"
    /\ pc' = "return"
    /\ UNCHANGED <<config, args, results, alerts, renewals_needed, i, calls,
                   host, slack, exit_code>>
    /\ UNCHANGED monVars

\* main: critical_alerts = [a for a in alerts if a['level'] == 'critical']
critical_alerts == SelectSeq(alerts, LAMBDA a : a.level = "critical")

\* main_return with any alert, not only a critical one, giving 1.
main_return_any_alert == IF alerts # << >> THEN 1 ELSE 0

\* main: return 1 if critical_alerts else 0
main_return == IF critical_alerts # << >> THEN 1 ELSE 0

\* sys.exit(main())
exit ==
    /\ pc = "return"
    /\ exit_code' = Exited(main_return)
    /\ pc' = "done"
    /\ UNCHANGED <<config, args, results, alerts, renewals_needed, i, calls,
                   host, slack, logged>>
    /\ UNCHANGED monVars

CertNext ==
    \/ check_domain
    \/ check_all_certificates
    \/ analyze_results
    \/ analyze_return
    \/ output_results
    \/ notify
    \/ renew_loop
    \/ renew_done
    \/ log_results
    \/ exit

\* ========================================================= metrics agent

\* Percentages and load averages are kept in hundredths: round(x, 2).
Scale == 100
\* round(a / b * 100, 2), in hundredths.
RoundPercent(a, b) == (2 * a * 100 * Scale + b) \div (2 * b)

\* check_services: services = ['sshd', 'systemd-resolved', 'cron']
services == <<"sshd", "systemd-resolved", "cron">>
ServiceNames == {services[k] : k \in DOMAIN services}

\* /proc/meminfo: unreadable, or MemTotal / MemAvailable in kB.
MemInfos ==
    {[kind |-> "raise", total |-> 0, available |-> 0]}
    \cup {[kind |-> "ok", total |-> 100, available |-> a] : a \in {10, 9}}
\* df -B1 /: raises, exits non-zero, exits 0 with fewer than two lines, or
\* prints total and used.
DfOutcomes ==
    {[kind |-> k, total |-> 0, used |-> 0] : k \in {"raise", "rc1", "short"}}
    \cup {[kind |-> "rc0", total |-> 10000, used |-> u] : u \in {8500, 8501}}
\* /proc/loadavg: unreadable, or the 1-minute load average (hundredths).
LoadAvgs ==
    {[kind |-> "raise", load |-> 0]}
    \cup {[kind |-> "ok", load |-> l] : l \in {400, 401}}
\* nslookup and ping: exit 0, exit non-zero, or raise (TimeoutExpired, OSError);
\* ping is not run when nslookup raised.
NetOutcomes ==
    {n \in [dns : {"rc0", "rc1", "timeout"}, ping : {"rc0", "rc1", "timeout", NotRun}] :
        (n.ping = NotRun) = (n.dns = "timeout")}
\* systemctl is-active <service>: prints active, prints something else, raises.
ServiceOutcomes == [ServiceNames -> {"active", "inactive", "raise"}]

ErrorOnly(msg) == [error |-> msg]

\* get_system_info
get_system_info(meminfo) ==
    IF meminfo.kind = "raise" THEN ErrorOnly("Failed to get memory info")
    ELSE [memory_total_bytes |-> meminfo.total * 1024,
          memory_available_bytes |-> meminfo.available * 1024,
          memory_used_percent |->
              IF meminfo.total > 0
              THEN RoundPercent((meminfo.total - meminfo.available) * 1024,
                                meminfo.total * 1024)
              ELSE 0]

\* get_disk_usage with a non-zero df reported as zeroes beside the error.
get_disk_usage_zeroes(df) ==
    IF df.kind = "raise" THEN ErrorOnly("Failed to get disk usage")
    ELSE IF df.kind = "rc0"
    THEN [disk_total_bytes |-> df.total,
          disk_used_bytes |-> df.used,
          disk_available_bytes |-> df.total - df.used,
          disk_used_percent |->
              IF df.total > 0 THEN RoundPercent(df.used, df.total) ELSE 0]
    ELSE [error |-> "Failed to parse df output", disk_used_percent |-> 0]

\* get_disk_usage
get_disk_usage(df) ==
    IF df.kind = "raise" THEN ErrorOnly("Failed to get disk usage")
    ELSE IF df.kind = "rc0"
    THEN [disk_total_bytes |-> df.total,
          disk_used_bytes |-> df.used,
          disk_available_bytes |-> df.total - df.used,
          disk_used_percent |->
              IF df.total > 0 THEN RoundPercent(df.used, df.total) ELSE 0]
    ELSE ErrorOnly("Failed to parse df output")

\* get_cpu_info
get_cpu_info(loadavg) ==
    IF loadavg.kind = "raise" THEN ErrorOnly("Failed to get CPU info")
    ELSE [load_1min |-> loadavg.load, load_5min |-> loadavg.load,
          load_15min |-> loadavg.load]

\* get_network_info: both probes inside one try; either raising leaves through
\* the except with the error record.
get_network_info(net) ==
    IF net.dns = "timeout" \/ net.ping = "timeout"
    THEN ErrorOnly("Failed to get network info")
    ELSE [dns_working |-> (net.dns = "rc0"),
          internet_reachable |-> (net.ping = "rc0")]

\* check_services: a raising query is recorded as False.
check_services(svc) == [s \in ServiceNames |-> (svc[s] = "active")]

MetricKeys == {"system", "disk", "cpu", "network", "services"}
NoMetrics == [k \in MetricKeys |-> << >>]
NoEnv == << >>

\* collect_metrics
collect_metrics ==
    /\ mpc = "collect"
    /\ \E e \in [system : MemInfos, disk : DfOutcomes, cpu : LoadAvgs,
                 network : NetOutcomes, services : ServiceOutcomes] :
          /\ env' = e
          /\ metrics' = [system |-> get_system_info(e.system),
                         disk |-> get_disk_usage(e.disk),
                         cpu |-> get_cpu_info(e.cpu),
                         network |-> get_network_info(e.network),
                         services |-> check_services(e.services)]
    /\ mpc' = "check"
    /\ UNCHANGED <<margs, warnings, mlog, mexit>>
    /\ UNCHANGED certVars

\* check_thresholds
check_thresholds(m) ==
    (IF "memory_used_percent" \in DOMAIN m.system
        /\ m.system.memory_used_percent > 90 * Scale
     THEN << "High memory usage: " \o ToString(m.system.memory_used_percent) >>
     ELSE << >>)
    \o (IF "disk_used_percent" \in DOMAIN m.disk
           /\ m.disk.disk_used_percent > 85 * Scale
        THEN << "High disk usage: " \o ToString(m.disk.disk_used_percent) >>
        ELSE << >>)
    \o (IF "load_1min" \in DOMAIN m.cpu /\ m.cpu.load_1min > 4 * Scale
        THEN << "High load average: " \o ToString(m.cpu.load_1min) >> ELSE << >>)
    \o (IF "internet_reachable" \in DOMAIN m.network
           /\ ~m.network.internet_reachable
        THEN << "Internet connectivity issue detected" >> ELSE << >>)
    \o [k \in 1..Len(SelectSeq(services, LAMBDA s : ~m.services[s])) |->
           "Service " \o SelectSeq(services, LAMBDA s : ~m.services[s])[k]
              \o " is not running"]

\* run_monitoring: warnings = check_thresholds(metrics)
run_check_thresholds ==
    /\ mpc = "check"
    /\ warnings' = check_thresholds(metrics)
    /\ mpc' = "report"
    /\ UNCHANGED <<margs, env, metrics, mlog, mexit>>
    /\ UNCHANGED certVars

\* run_monitoring: the json / human report; it prints and changes nothing.
report ==
    /\ mpc = "report"
    /\ mpc' = "log"
    /\ UNCHANGED <<margs, env, metrics, warnings, mlog, mexit>>
    /\ UNCHANGED certVars

\* run_monitoring: "if args.log_file: with open(args.log_file, 'a') as f: ...".
\* The append is not inside a try: when open or write raises, the exception
\* leaves run_monitoring and main (the daemon loop catches KeyboardInterrupt
\* only) and the interpreter exits with a traceback.
log_append(append) ==
    IF ~margs.log_file THEN [mlog |-> "no log file", mpc |-> "send", mexit |-> mexit]
    ELSE IF append = "ok" THEN [mlog |-> "written", mpc |-> "send", mexit |-> mexit]
    ELSE [mlog |-> "raised", mpc |-> "done", mexit |-> Traceback]

log_to_file ==
    /\ mpc = "log"
    /\ \E append \in {"ok", "raise"} :
          /\ mlog' = log_append(append).mlog
          /\ mpc' = log_append(append).mpc
          /\ mexit' = log_append(append).mexit
    /\ UNCHANGED <<margs, env, metrics, warnings>>
    /\ UNCHANGED certVars

\* send_to_monitoring_system: prints where it would send.
send_to_monitoring_system ==
    /\ mpc = "send"
    /\ mpc' = "return"
    /\ UNCHANGED <<margs, env, metrics, warnings, mlog, mexit>>
    /\ UNCHANGED certVars

\* run_monitoring: return 1 if warnings else 0
run_monitoring_return == IF warnings # << >> THEN 1 ELSE 0

\* main, not --daemon: return run_monitoring(); sys.exit(main())
run_once_exit ==
    /\ mpc = "return"
    /\ ~margs.daemon
    /\ mexit' = Exited(run_monitoring_return)
    /\ mpc' = "done"
    /\ UNCHANGED <<margs, env, metrics, warnings, mlog>>
    /\ UNCHANGED certVars

\* main, --daemon: run_monitoring() returned, its value and locals are dropped;
\* time.sleep(args.interval) follows.
daemon_sleep ==
    /\ mpc = "return"
    /\ margs.daemon
    /\ mpc' = "sleep"
    /\ env' = NoEnv
    /\ metrics' = NoMetrics
    /\ warnings' = << >>
    /\ mlog' = "none"
    /\ UNCHANGED <<margs, mexit>>
    /\ UNCHANGED certVars

\* main, --daemon: the sleep is over, "while True" runs run_monitoring again.
daemon_wake ==
    /\ mpc = "sleep"
    /\ mpc' = "collect"
    /\ UNCHANGED <<margs, env, metrics, warnings, mlog, mexit>>
    /\ UNCHANGED certVars

\* main, --daemon: except KeyboardInterrupt: print "Daemon stopped", return 0.
Interrupted == [cause |-> "KeyboardInterrupt", code |-> 0]

keyboard_interrupt ==
    /\ margs.daemon
    /\ mpc \notin {"done", "idle"}
    /\ mexit' = Interrupted
    /\ mpc' = "done"
    /\ UNCHANGED <<margs, env, metrics, warnings, mlog>>
    /\ UNCHANGED certVars

MonInit ==
    /\ margs \in [daemon : BOOLEAN, log_file : BOOLEAN]
    /\ mpc = "collect"
    /\ env = NoEnv
    /\ metrics = NoMetrics
    /\ warnings = << >>
    /\ mlog = "none"
    /\ mexit = NoExit

\* The metrics agent is not the program being run (Spec).
MonIdle ==
    /\ margs = [daemon |-> FALSE, log_file |-> FALSE]
    /\ mpc = "idle"
    /\ env = NoEnv
    /\ metrics = NoMetrics
    /\ warnings = << >>
    /\ mlog = "none"
    /\ mexit = NoExit

MonNext ==
    \/ collect_metrics
    \/ run_check_thresholds
    \/ report
    \/ log_to_file
    \/ send_to_monitoring_system
    \/ run_once_exit
    \/ daemon_sleep
    \/ daemon_wake
    \/ keyboard_interrupt

\* ======================================================= specifications

\* One run of the certificate tool.
Init == CertInit /\ MonIdle
Next == CertNext
Spec == Init /\ [][Next]_vars

\* One run, or the daemon loop, of the metrics agent.
InitMon == CertIdle /\ MonInit
NextMon == MonNext
SpecMon == InitMon /\ [][NextMon]_vars

\* ================================================================ claims

\* The loop of analyze_results is about to process results[i].
Analyzing == pc = "analyze" /\ i <= Len(results)
\* The step appended exactly one alert, of this level, for results[i].
AppendsOneAlert(level) ==
    /\ Len(alerts') = Len(alerts) + 1
    /\ SubSeq(alerts', 1, Len(alerts)) = alerts
    /\ alerts'[Len(alerts')].level = level
    /\ alerts'[Len(alerts')].domain = results[i].domain
\* The analysis is over: alerts and renewals_needed are final.
Analyzed == pc \in {"output", "notify", "renew", "log", "return", "done"}
HasAlert(level, domain) ==
    \E k \in 1..Len(alerts) : alerts[k].level = level /\ alerts[k].domain = domain
InRenewals(domain) ==
    \E k \in 1..Len(renewals_needed) : renewals_needed[k] = domain

\* C1: a valid record with days_until_expiry <= critical_days (the boundary
\* and the case days <= warning_days included) gets exactly one alert, of level
\* critical, and its domain is appended to renewals_needed; no warning alert.
C1_CriticalAtOrBelowThreshold ==
    [][ (/\ Analyzing
         /\ results[i].status = "valid"
         /\ results[i].days_until_expiry <= config.critical_days)
        => (/\ AppendsOneAlert("critical")
            /\ renewals_needed' = Append(renewals_needed, results[i].domain)) ]_vars

\* C1 witness: a record exactly at critical_days, also within warning_days,
\* was analyzed into a critical alert and a renewal entry.
C1_Witness ==
    /\ Analyzed
    /\ \E k \in 1..Len(results) :
          /\ results[k].status = "valid"
          /\ results[k].days_until_expiry = config.critical_days
          /\ results[k].days_until_expiry <= config.warning_days
          /\ HasAlert("critical", results[k].domain)
          /\ ~HasAlert("warning", results[k].domain)
          /\ InRenewals(results[k].domain)

\* C2 as stated: a valid record with critical_days < days <= warning_days gets
\* exactly one alert, a warning, and no renewal entry; a valid record with
\* days > warning_days gets no alert and no renewal entry.
C2_Original ==
    [][ (Analyzing /\ results[i].status = "valid")
        => (/\ (/\ config.critical_days < results[i].days_until_expiry
                /\ results[i].days_until_expiry <= config.warning_days)
               => (AppendsOneAlert("warning") /\ renewals_needed' = renewals_needed)
            /\ (results[i].days_until_expiry > config.warning_days)
               => (alerts' = alerts /\ renewals_needed' = renewals_needed)) ]_vars

\* C2 amended: as C2, but a valid record gets no alert and no renewal entry
\* when days exceeds both warning_days and critical_days (critical_days is
\* compared first, also when it is configured above warning_days).
C2_WarningBand ==
    [][ (Analyzing /\ results[i].status = "valid")
        => (/\ (/\ config.critical_days < results[i].days_until_expiry
                /\ results[i].days_until_expiry <= config.warning_days)
               => (AppendsOneAlert("warning") /\ renewals_needed' = renewals_needed)
            /\ (/\ results[i].days_until_expiry > config.warning_days
                /\ results[i].days_until_expiry > config.critical_days)
               => (alerts' = alerts /\ renewals_needed' = renewals_needed)) ]_vars

\* C2 witness: a record inside the warning band was analyzed into a warning
\* and no renewal, next to nothing else for its domain.
C2_Witness ==
    /\ Analyzed
    /\ \E k \in 1..Len(results) :
          /\ results[k].status = "valid"
          /\ config.critical_days < results[k].days_until_expiry
          /\ results[k].days_until_expiry <= config.warning_days
          /\ HasAlert("warning", results[k].domain)
          /\ ~HasAlert("critical", results[k].domain)
          /\ ~InRenewals(results[k].domain)

\* C3: a record with status error gets exactly one alert, of level critical,
\* under every configured pair of thresholds.
C3_ErrorIsCritical ==
    [][ (Analyzing /\ results[i].status = "error")
        => AppendsOneAlert("critical") ]_vars

\* C3 witness: an error record was analyzed into a critical alert.
C3_Witness ==
    /\ Analyzed
    /\ \E k \in 1..Len(results) :
          /\ results[k].status = "error"
          /\ HasAlert("critical", results[k].domain)

\* The certbot invocations of the run, in order.
CertbotCalls == SelectSeq(calls, LAMBDA c : c[1] = "certbot")
\* The last n subprocess invocations of the run.
LastCalls(n) == SubSeq(calls, Len(calls) - n + 1, Len(calls))
\* The renewal block of main is over.
RenewalsOver == pc \in {"log", "return", "done"}

\* C4: with auto_renew disabled the run invokes no subprocess at all (no
\* certbot, no config test, no reload), whatever renewals_needed holds and
\* whether or not --renew was passed.
C4_NoSubprocessWithoutAutoRenew ==
    ~config.auto_renew => calls = << >>

\* C4 witness: a finished run with --renew and a non-empty renewal list, with
\* auto_renew disabled and not one subprocess invoked.
C4_Witness ==
    /\ pc = "done"
    /\ ~config.auto_renew
    /\ args.renew
    /\ Len(renewals_needed) >= 2
    /\ calls = << >>

\* C5 as stated: with --renew, certbot is invoked once for every entry of
\* renewals_needed, in list order, whatever the earlier renewals did.
C5_Original ==
    (RenewalsOver /\ args.renew)
    => CertbotCalls = [k \in 1..Len(renewals_needed) |->
                          <<"certbot", "renew", renewals_needed[k]>>]

\* C5 amended: with --renew and auto_renew enabled, certbot is invoked once for
\* every entry of renewals_needed, in list order, whatever the earlier
\* renewals did.
C5_RenewEveryEntryInOrder ==
    (RenewalsOver /\ args.renew /\ config.auto_renew)
    => CertbotCalls = [k \in 1..Len(renewals_needed) |->
                          <<"certbot", "renew", renewals_needed[k]>>]

\* C5 witness: two entries; the first renewal did not succeed (nothing was
\* invoked between the two certbot calls) and the second was attempted and
\* succeeded.
C5_Witness ==
    /\ pc = "done"
    /\ args.renew
    /\ config.auto_renew
    /\ Len(renewals_needed) = 2
    /\ Len(calls) >= 4
    /\ calls[1] = <<"certbot", "renew", renewals_needed[1]>>
    /\ calls[2] = <<"certbot", "renew", renewals_needed[2]>>
    /\ host.certbot = "rc0"

\* C8: main returns 1 exactly when alerts holds a critical alert, else 0, for
\* every output format, webhook outcome, log outcome and renewal outcome.
C8_ExitCodeIffCritical ==
    pc = "done"
    => /\ exit_code \in {Exited(0), Exited(1)}
       /\ (exit_code = Exited(1))
          <=> (\E k \in 1..Len(alerts) : alerts[k].level = "critical")

\* C8 witness: a run that only had warnings, whose webhook post raised and
\* whose log append failed, exits 0.
C8_Witness ==
    /\ pc = "done"
    /\ alerts # << >>
    /\ exit_code = Exited(0)
    /\ slack = "error"
    /\ logged = "warning printed"

\* C9: with host describing the last renewal: after certbot exited 0 the nginx
\* test is probed first; when it passes nginx is reloaded and nothing else is
\* probed; when it does not pass and the apache test passes, apache was probed
\* second and is reloaded; when neither passes nothing is reloaded; and
\* nothing is probed or reloaded when certbot exited non-zero, timed out or
\* raised.
C9_Claim ==
    /\ host.certbot \in {"rc1", "timeout", "raise"}
       => calls[Len(calls)][1] = "certbot"
    /\ (host.certbot = "rc0" /\ host.nginx = "rc0")
       => /\ Len(calls) >= 3
          /\ LastCalls(3)[1][1] = "certbot"
          /\ LastCalls(2) = << <<"nginx", "-t">>, <<"systemctl", "reload", "nginx">> >>
    /\ (host.certbot = "rc0" /\ host.nginx # "rc0" /\ host.apache = "rc0")
       => /\ Len(calls) >= 4
          /\ LastCalls(4)[1][1] = "certbot"
          /\ LastCalls(3) = << <<"nginx", "-t">>, <<"apache2ctl", "configtest">>,
                               <<"systemctl", "reload", "apache2">> >>
    /\ (host.certbot = "rc0" /\ host.nginx # "rc0" /\ host.apache # "rc0")
       => calls[Len(calls)][1] # "systemctl"

\* ------------------------------------------------------- metrics agent

\* run_monitoring holds a snapshot.
Collected == mpc \in {"check", "report", "log", "send", "return"}
\* The probes of the snapshot that failed: a file that could not be read, a
\* subprocess that raised, timed out or (df) exited non-zero or printed too
\* little.
FailedProbes ==
    {k \in MetricKeys :
        \/ k = "system" /\ env.system.kind = "raise"
        \/ k = "disk" /\ env.disk.kind \in {"raise", "rc1", "short"}
        \/ k = "cpu" /\ env.cpu.kind = "raise"
        \/ k = "network" /\ "timeout" \in {env.network.dns, env.network.ping}
        \/ k = "services" /\ \E s \in ServiceNames : env.services[s] = "raise"}
\* The fields of a sub-record whose probe worked.
NormalFields ==
    [system |-> {"memory_total_bytes", "memory_available_bytes", "memory_used_percent"},
     disk |-> {"disk_total_bytes", "disk_used_bytes", "disk_available_bytes",
               "disk_used_percent"},
     cpu |-> {"load_1min", "load_5min", "load_15min"},
     network |-> {"dns_working", "internet_reachable"},
     services |-> ServiceNames]

\* C6 as stated: when exactly one of the five probes failed, its sub-record
\* holds only an error field and the other four hold their normal fields.
C6_Original ==
    (Collected /\ Cardinality(FailedProbes) = 1)
    => /\ DOMAIN metrics = MetricKeys
       /\ \A k \in FailedProbes : DOMAIN metrics[k] = {"error"}
       /\ \A k \in MetricKeys \ FailedProbes : DOMAIN metrics[k] = NormalFields[k]

\* C6 amended: when exactly one of the five probes failed: if it is the memory,
\* disk, CPU-load or network probe its sub-record holds only an error field; if
\* it is the services probe its sub-record still maps every service to a
\* boolean, False for each service whose query raised, and holds no error
\* field; the other four sub-records hold their normal fields.
C6_ProbeFailureIsolated ==
    (Collected /\ Cardinality(FailedProbes) = 1)
    => /\ DOMAIN metrics = MetricKeys
       /\ \A k \in FailedProbes \ {"services"} : DOMAIN metrics[k] = {"error"}
       /\ "services" \in FailedProbes
          => /\ DOMAIN metrics.services = ServiceNames
             /\ \A s \in ServiceNames :
                   env.services[s] = "raise" => metrics.services[s] = FALSE
       /\ \A k \in MetricKeys \ FailedProbes : DOMAIN metrics[k] = NormalFields[k]

\* C6 witness: df exited non-zero and nothing else failed; the disk sub-record
\* is the error alone and the memory percentage was still read.
C6_Witness ==
    /\ Collected
    /\ FailedProbes = {"disk"}
    /\ env.disk.kind = "rc1"
    /\ DOMAIN metrics.disk = {"error"}
    /\ metrics.system.memory_used_percent = 91 * Scale

\* C7: in both tools a finished run never ended in an unhandled exception, and
\* its exit code is the one derived from the critical alerts (certificate
\* tool) or from the warnings (metrics agent, not --daemon).
C7_Claim ==
    /\ pc = "done" => exit_code = Exited(main_return)
    /\ mpc = "done" => mexit.cause # "exception"
    /\ (mpc = "done" /\ ~margs.daemon) => mexit = Exited(run_monitoring_return)

\* C10: the daemon ends only through KeyboardInterrupt, whatever a monitoring
\* run met, and every iteration starts without a snapshot or warnings of the
\* iteration before.
C10_Claim ==
    /\ (margs.daemon /\ mpc = "done") => mexit = Interrupted
    /\ (margs.daemon /\ mpc = "collect") => (metrics = NoMetrics /\ warnings = << >>)

\* C11: in a collected snapshot the DNS probe alone decides dns_working and the
\* ping probe alone decides internet_reachable: whenever nslookup exited (0 or
\* not) dns_working is present with that verdict, and whenever ping exited (0
\* or not) internet_reachable is present with that verdict, whatever the other
\* probe did (failed, timed out).
C11_Claim ==
    Collected
    => /\ env.network.dns \in {"rc0", "rc1"}
          => /\ "dns_working" \in DOMAIN metrics.network
             /\ metrics.network.dns_working = (env.network.dns = "rc0")
       /\ env.network.ping \in {"rc0", "rc1"}
          => /\ "internet_reachable" \in DOMAIN metrics.network
             /\ metrics.network.internet_reachable = (env.network.ping = "rc0")

====
